---- MODULE Spec2Model ----
(***************************************************************************)
(* right2disappear: the search-then-delete pipeline of src/src/purge.ts    *)
(* on top of the retry ladder of src/src/api.ts (DiscordAPI.#request) and  *)
(* the archived-thread record of src/src/config.ts, driven by main() of    *)
(* src/src/index.ts.                                                       *)
(*                                                                         *)
(* The program is single threaded: between two awaits of fetch() it runs   *)
(* deterministic local code.  One step of the model is therefore one HTTP  *)
(* exchange: the response to the request in flight is consumed, the code   *)
(* runs on from the await to the next fetch() (or to process.exit), and    *)
(* the next request is in flight.  The program state is the record `run`.  *)
(***************************************************************************)
EXTENDS Integers, Sequences, FiniteSets, TLC

\* ------------------------------------------------------------- bounds
\* Message ids are 1..MaxMsgId.
MaxMsgId == 2
\* Non-empty search pages an unconstrained search index serves in one run.
MaxPages == 2
\* Rate-limited (429) answers the service gives in one run.
Max429 == 1
\* Failing answers (401, 403, 404, other 4xx and 5xx) the service gives in one run.
MaxFaults == 2
\* Full pages of the guild listing the service serves in one run.
MaxFullPages == 2
\* messages of the account beyond one full search page, for the index that
\* answers in ascending order
MaxBeyondPage == 1

\* -------------------------------------------------- program constants
\* #maxRetries of DiscordAPI
maxRetries == 5
\* the single-page size purgeTarget compares total_results with
SearchPageSize == 25
\* page size of the guild listing
GuildPageLimit == 200
\* DEFAULTS.deleteDelayMs, DEFAULTS.searchDelayMs
deleteDelayMs == 1200
searchDelayMs == 3000
\* sleep of the 202 branch
IndexBuildingSleepMs == 3000

\* ----------------------------------------------------------- universe
MsgIds == 1..MaxMsgId
Me == "me"
Other == "other"
ChannelIds == {"c1", "c2"}
\* The remote records: the channel of a message never changes.
ChannelOf(id) == IF id % 2 = 1 THEN "c1" ELSE "c2"
\* A message as it appears in a search result group (api.ts Message).
Msg(id, author, hit) == [id |-> id, channel_id |-> ChannelOf(id), author |-> author, hit |-> hit]

\* Names are sequences of characters; "A" is the one upper-case letter.
toLowerCase(s) == [i \in 1..Len(s) |-> IF s[i] = "A" THEN "a" ELSE s[i]]
\* String.prototype.includes: p occurs in s as a contiguous substring.
includes(s, p) ==
    \E k \in 0..(Len(s) - Len(p)) : \A i \in 1..Len(p) : s[k + i] = p[i]

NameOfChannel(c) == IF c = "c1" THEN <<"A", "b">> ELSE <<"b", "c">>

\* The guild channel list as the service returns it: (id, name) pairs.
GuildChannelLists ==
    { {<<c, NameOfChannel(c)>> : c \in S} : S \in {ChannelIds, {"c2"}} }

\* The guilds of the account are g1, g2, ... in the order of the listing.
GuildId(i) == "g" \o ToString(i)
GuildIds == {GuildId(1), GuildId(2)}
GuildLists == {<<>>, <<GuildId(1)>>, <<GuildId(1), GuildId(2)>>}
\* The place of a guild in the listing; 0 for no guild (no `after`).
GuildIndex(id) ==
    IF id = "" THEN 0
    ELSE CHOOSE i \in 1..((MaxFullPages + 1) * GuildPageLimit) : GuildId(i) = id
\* A page of the listing: the n guilds that follow `after`.
GuildPage(after, n) == [i \in 1..n |-> GuildId(GuildIndex(after) + i)]
\* A DM channel (api.ts Channel): recipients' usernames, and a name.
DMChannel(id, recipients, name) == [id |-> id, recipients |-> recipients, name |-> name]
\* d1 resolves to "A, b"; d2 to "c, Ab"; d3, without recipients, to its name
\* "Ab"; d4, without recipients or name, to its id.
DMLists ==
    {<<>>,
     <<DMChannel("d1", << <<"A">>, <<"b">> >>, <<>>)>>,
     <<DMChannel("d2", << <<"c">>, <<"A", "b">> >>, <<>>),
       DMChannel("d1", << <<"A">>, <<"b">> >>, <<>>)>>,
     <<DMChannel("d3", <<>>, <<"A", "b">>), DMChannel("d4", <<>>, <<>>)>>}

\* ------------------------------------------------ purge.ts: pure parts
RECURSIVE flat(_)
\* result.messages.flat()
flat(groups) == IF groups = <<>> THEN <<>> ELSE Head(groups) \o flat(Tail(groups))

RECURSIVE extractFrom(_, _, _)
extractFrom(ms, authorId, seen) ==
    IF ms = <<>> THEN <<>>
    ELSE LET m == Head(ms) IN
         IF m.author = authorId /\ m.hit /\ m.id \notin seen
         THEN <<m>> \o extractFrom(Tail(ms), authorId, seen \cup {m.id})
         ELSE extractFrom(Tail(ms), authorId, seen)

\* A faulty variant of extractHits: a message is kept at each of its
\* occurrences.
extractHits_keepRepeats(result, authorId) ==
    SelectSeq(flat(result.messages), LAMBDA m : m.author = authorId /\ m.hit)

\* extractHits: messages of the acting user flagged as hits, first occurrence
\* of each id, in page order.
extractHits(result, authorId) == extractFrom(flat(result.messages), authorId, {})

\* matchesSkipPattern: case-insensitive contains match against any pattern.
matchesSkipPattern(name, patterns) ==
    \E i \in 1..Len(patterns) : includes(toLowerCase(name), toLowerCase(patterns[i]))

\* channelNames.get(id): the name, or <<>> for undefined (falsy like "").
mapGet(channelNames, id) ==
    IF \E e \in channelNames : e[1] = id
    THEN (CHOOSE e \in channelNames : e[1] = id)[2]
    ELSE <<>>

\* A faulty variant of the filter: the name is compared as written.
isSkipped_caseSensitive(msg, hasNames, channelNames, skipChannels) ==
    /\ hasNames
    /\ Len(skipChannels) > 0
    /\ mapGet(channelNames, msg.channel_id) # <<>>
    /\ \E i \in 1..Len(skipChannels) :
          includes(mapGet(channelNames, msg.channel_id), skipChannels[i])

\* The skip-channel test of the filter callback of purgeTarget.
isSkipped(msg, hasNames, channelNames, skipChannels) ==
    /\ hasNames
    /\ Len(skipChannels) > 0
    /\ mapGet(channelNames, msg.channel_id) # <<>>
    /\ matchesSkipPattern(mapGet(channelNames, msg.channel_id), skipChannels)

\* ms.reduce((a, b) => BigInt(a.id) < BigInt(b.id) ? a : b).id, ms non-empty
oldestId(ms) == CHOOSE i \in {ms[k].id : k \in 1..Len(ms)} :
                    \A k \in 1..Len(ms) : i <= ms[k].id

\* ------------------------------------------------- api.ts: the client
\* A request path: the endpoint, the id it is scoped to, and the max_id of a
\* search or the message id of a delete (0 otherwise).
Path(ep, id, arg) == [ep |-> ep, id |-> id, arg |-> arg]

\* The errors #request throws: class and message.
Err(cls, head, status, method, path, text) ==
    [cls |-> cls, head |-> head, status |-> status, method |-> method,
     path |-> path, text |-> text]
IndexNotReadyError(req) ==
    Err("Error", "Search index not ready", maxRetries, "", req.path, "")
AuthError(req) == Err("DiscordAuthError", "Invalid or expired token", 0, "", Path("", "", 0), "")
ForbiddenError(req) == Err("DiscordForbiddenError", "Forbidden", 0, "", req.path, "")
NotFoundError(req) == Err("Error", "Not found", 0, "", req.path, "")
HttpError(req, status, text) == Err("Error", "HTTP", status, req.method, req.path, text)

\* emsg.includes(needle): the message starts with its head; an HTTP error
\* embeds the response text.
emsgIncludes(e, needle) == e.head = needle \/ (e.head = "HTTP" /\ e.text = needle)

NoReq == [site |-> "none", method |-> "", path |-> Path("", "", 0), attempt |-> 0]

\* #request(method, path): the first fetch of a call, attempt = 0.
Request(r, site, method, path) ==
    [r EXCEPT !.req = [site |-> site, method |-> method, path |-> path, attempt |-> 0]]

\* Bun.sleep(ms): the sleeps of one step, in order.
Sleep(r, ms) == [r EXCEPT !.slept = Append(@, ms)]

\* ------------------------------------------------ index.ts / config.ts
\* saveArchivedThreads: nothing is written for an empty map.
saveArchivedThreads(r) ==
    IF r.archivedThreads = {} THEN r ELSE [r EXCEPT !.file = r.archivedThreads]

\* main(): purge returned; the summary is printed and the process exits.
Exit(r, code) == [r EXCEPT !.pc = "exited", !.exitCode = code, !.req = NoReq]

\* purge(): after the last target, then main()'s exit code.
Finish(r) ==
    LET s == saveArchivedThreads(r) IN
    Exit(s, IF s.stats.messagesFailed > 0 THEN 1 ELSE 0)

\* A faulty variant of the abort: the exit code follows the failed deletions.
Abort_byFailures(r) == Exit(r, IF r.stats.messagesFailed > 0 THEN 1 ELSE 0)

\* purge() threw: main().catch exits with 1.
Abort(r) == Exit(r, 1)

\* ------------------------------------------------ purge.ts: the loops
\* stats.errors.push(...)
pushError(r, what, msg, target, e) ==
    [r EXCEPT !.stats.errors = Append(@, [what |-> what, msg |-> msg, target |-> target, emsg |-> e])]

\* purgeTarget, top of the while loop: round++ and the search call with the
\* current cursor.
SearchCall(r) ==
    Request([r EXCEPT !.round = @ + 1], "search", "GET",
            Path(IF r.kind = "guild" THEN "guildSearch" ELSE "channelSearch",
                 r.targetId, r.maxId))

\* purge() calling purgeTarget(..., maxId, ..., channelNames, ...).
StartTarget(r, kind, id, name, hasNames, channelNames) ==
    SearchCall([r EXCEPT !.kind = kind, !.targetId = id, !.targetName = name,
                         !.hasNames = hasNames, !.channelNames = channelNames,
                         !.maxId = r.cutoff, !.round = 0, !.pageOldest = 0,
                         !.found = <<>>, !.handled = {}, !.hits = <<>>, !.hi = 0, !.deletedThisBatch = 0])

RECURSIVE join(_)
\* recipients.map(r => r.username).join(", ")
join(names) ==
    IF names = <<>> THEN <<>>
    ELSE IF Len(names) = 1 THEN names[1]
    ELSE names[1] \o <<",", " ">> \o join(Tail(names))

\* The display name of a DM channel: joined recipients || name || id.
dmName(ch) ==
    IF join(ch.recipients) # <<>> THEN join(ch.recipients)
    ELSE IF ch.name # <<>> THEN ch.name
    ELSE <<ch.id>>

RECURSIVE DMLoop_noSkip(_)
\* A faulty variant of the DM loop: the skip patterns are not applied.
DMLoop_noSkip(r) ==
    IF r.di > Len(r.dms) THEN Finish(r)
    ELSE LET ch == r.dms[r.di]
             next == [r EXCEPT !.di = @ + 1]
         IN IF ch.id \in r.config.excludeChannels THEN DMLoop_noSkip(next)
            ELSE IF r.config.includeChannels # {} /\ ch.id \notin r.config.includeChannels
                 THEN DMLoop_noSkip(next)
            ELSE StartTarget(r, "channel", ch.id, dmName(ch), FALSE, {})

RECURSIVE DMLoop(_)
\* purge(): for (const channel of channels), from index di on.
DMLoop(r) ==
    IF r.di > Len(r.dms) THEN Finish(r)
    ELSE LET ch == r.dms[r.di]
             next == [r EXCEPT !.di = @ + 1]
         IN IF ch.id \in r.config.excludeChannels THEN DMLoop(next)
            ELSE IF r.config.includeChannels # {} /\ ch.id \notin r.config.includeChannels
                 THEN DMLoop(next)
            ELSE IF Len(r.config.skipChannels) > 0
                    /\ matchesSkipPattern(dmName(ch), r.config.skipChannels)
                 THEN DMLoop(next)
            ELSE StartTarget(r, "channel", ch.id, dmName(ch), FALSE, {})

\* purge(): the DM section.
DMPhase(r) ==
    IF r.config.includeDMs
    THEN Request(r, "getDMChannels", "GET", Path("dmChannels", "", 0))
    ELSE Finish(r)

\* A faulty variant of the scope test: a guild on the include list is taken
\* even if it is on the exclude list too.
guildInScope_includeWins(r, g) ==
    \/ g \in r.config.includeGuilds
    \/ r.config.includeGuilds = {} /\ g \notin r.config.excludeGuilds

\* purge(): the include and exclude tests at the top of the guild loop.
guildInScope(r, g) ==
    /\ ~(r.config.includeGuilds # {} /\ g \notin r.config.includeGuilds)
    /\ g \notin r.config.excludeGuilds

\* purge(): for (const guild of guilds), from index gi on: the guilds out of
\* scope are passed over, the first one in scope is the next target.
GuildLoop(r) ==
    LET inScope == {j \in r.gi..Len(r.guilds) : guildInScope(r, r.guilds[j])} IN
    IF inScope = {} THEN DMPhase([r EXCEPT !.gi = Len(r.guilds) + 1])
    ELSE LET k == CHOOSE j \in inScope : \A i \in inScope : j <= i
             at == [r EXCEPT !.gi = k]
             g == r.guilds[k]
         IN IF Len(r.config.skipChannels) > 0
            THEN Request(at, "getGuildChannels", "GET", Path("guildChannels", g, 0))
            ELSE StartTarget(at, "guild", g, <<g>>, FALSE, {})

\* A faulty variant of the try/catch around purgeTarget: a failure of the
\* target ends the run.
EndTarget_noCatch(r, threw, e) ==
    LET done == [r EXCEPT !.hits = <<>>, !.hi = 0, !.deletedThisBatch = 0, !.pageOldest = 0,
                          !.found = <<>>, !.handled = {},
                          !.hasNames = FALSE, !.channelNames = {}]
    IN IF threw THEN Abort(done)
       ELSE IF r.kind = "guild"
       THEN GuildLoop([done EXCEPT !.stats.guildsProcessed = @ + 1, !.gi = @ + 1])
       ELSE DMLoop([done EXCEPT !.stats.channelsProcessed = @ + 1, !.di = @ + 1])

\* purgeTarget returned (threw = FALSE) or threw e: the try/catch around it
\* in purge(), then the next target.
EndTarget(r, threw, e) ==
    LET done == [r EXCEPT !.hits = <<>>, !.hi = 0, !.deletedThisBatch = 0, !.pageOldest = 0,
                          !.found = <<>>, !.handled = {},
                          !.hasNames = FALSE, !.channelNames = {}]
    IN IF r.kind = "guild"
       THEN GuildLoop([(IF threw
                        THEN pushError(done, "guild", 0, r.targetName, e)
                        ELSE [done EXCEPT !.stats.guildsProcessed = @ + 1])
                       EXCEPT !.gi = @ + 1])
       ELSE DMLoop([(IF threw
                     THEN pushError(done, "DM", 0, r.targetName, e)
                     ELSE [done EXCEPT !.stats.channelsProcessed = @ + 1])
                    EXCEPT !.di = @ + 1])

NoErr == Err("", "", 0, "", Path("", "", 0), "")

\* A faulty variant of the cursor advance: the cursor is set to the oldest hit itself.
advanceCursor_noDecrement(r) ==
    IF r.deletedThisBatch = 0 /\ Len(r.hits) > 0
    THEN [r EXCEPT !.maxId = oldestId(r.hits)]
    ELSE r

\* A faulty variant of the cursor advance: the cursor is never moved.
advanceCursor_never(r) == r

\* A faulty variant of the cursor advance: the cursor is moved past the newest
\* hit, as if the pages were walked upwards.
advanceCursor_pastNewest(r) ==
    IF r.deletedThisBatch = 0 /\ Len(r.hits) > 0
    THEN [r EXCEPT !.maxId = (CHOOSE i \in {r.hits[k].id : k \in 1..Len(r.hits)} :
                                 \A k \in 1..Len(r.hits) : r.hits[k].id <= i) + 1]
    ELSE r

\* A faulty variant of the cursor advance: the cursor is moved below the hits
\* of every round, deleted or not.
advanceCursor_always(r) ==
    IF Len(r.hits) > 0 THEN [r EXCEPT !.maxId = oldestId(r.hits) - 1] ELSE r

\* purgeTarget, after the for loop: advance the cursor past the processed
\* messages when nothing was actually deleted.
advanceCursor(r) ==
    IF r.deletedThisBatch = 0 /\ Len(r.hits) > 0
    THEN [r EXCEPT !.maxId = oldestId(r.hits) - 1]
    ELSE r

\* purgeTarget, end of a round with hits: cursor, search delay, next search.
EndRound(r) == SearchCall(Sleep(advanceCursor(r), searchDelayMs))

\* Faulty variants of the for loop body: without the dry-run branch, with the dry-run
\* test ahead of the archived-thread test, without the archived-thread test.
hitAction_noDryRun(r, msg) ==
    IF msg.channel_id \in r.archivedThreads THEN "skip" ELSE "delete"

hitAction_dryRunFirst(r, msg) ==
    IF r.config.dryRun THEN "simulate"
    ELSE IF msg.channel_id \in r.archivedThreads THEN "skip"
    ELSE "delete"

hitAction_noArchivedCheck(r, msg) ==
    IF r.config.dryRun THEN "simulate" ELSE "delete"

\* purgeTarget, the for loop body before the delete call: what is done with
\* a hit.
hitAction(r, msg) ==
    IF msg.channel_id \in r.archivedThreads THEN "skip"
    ELSE IF r.config.dryRun THEN "simulate"
    ELSE "delete"

RECURSIVE ProcessHits(_)
\* purgeTarget: for (const msg of hits), from index hi on, up to the next
\* delete call.
ProcessHits(r) ==
    IF r.hi > Len(r.hits) THEN EndRound(r)
    ELSE LET msg == r.hits[r.hi] IN
         IF hitAction(r, msg) = "skip"
         THEN ProcessHits([r EXCEPT !.stats.messagesSkipped = @ + 1, !.hi = @ + 1])
         ELSE IF hitAction(r, msg) = "simulate"
         THEN ProcessHits([r EXCEPT !.stats.messagesDeleted = @ + 1, !.hi = @ + 1])
         ELSE Request(r, "deleteMessage", "DELETE", Path("message", msg.channel_id, msg.id))

\* A faulty variant of the catch: not-found is counted like any other failure.
classifyDelete_notFoundFails(r, threw, e) ==
    LET msg == r.hits[r.hi] IN
    IF ~threw
    THEN [r EXCEPT !.stats.messagesDeleted = @ + 1, !.deletedThisBatch = @ + 1]
    ELSE IF emsgIncludes(e, "Thread is archived")
    THEN [r EXCEPT !.archivedThreads = @ \cup {msg.channel_id},
                   !.stats.messagesSkipped = @ + 1]
    ELSE pushError([r EXCEPT !.stats.messagesFailed = @ + 1], "message", msg.id, <<>>, e)

\* A faulty variant of the catch: a failed delete is counted but not listed.
classifyDelete_failedUnlisted(r, threw, e) ==
    LET msg == r.hits[r.hi] IN
    IF ~threw
    THEN [r EXCEPT !.stats.messagesDeleted = @ + 1, !.deletedThisBatch = @ + 1]
    ELSE IF emsgIncludes(e, "Not found") THEN r
    ELSE IF emsgIncludes(e, "Thread is archived")
    THEN [r EXCEPT !.archivedThreads = @ \cup {msg.channel_id},
                   !.stats.messagesSkipped = @ + 1]
    ELSE [r EXCEPT !.stats.messagesFailed = @ + 1]

\* purgeTarget: the try/catch around api.deleteMessage.
classifyDelete(r, threw, e) ==
    LET msg == r.hits[r.hi] IN
    IF ~threw
    THEN [r EXCEPT !.stats.messagesDeleted = @ + 1, !.deletedThisBatch = @ + 1]
    ELSE IF emsgIncludes(e, "Not found") THEN r
    ELSE IF emsgIncludes(e, "Thread is archived")
    THEN [r EXCEPT !.archivedThreads = @ \cup {msg.channel_id},
                   !.stats.messagesSkipped = @ + 1]
    ELSE pushError([r EXCEPT !.stats.messagesFailed = @ + 1], "message", msg.id, <<>>, e)

\* A faulty variant of the delete loop: the next search is issued as soon as
\* one delete call has ended, the rest of the round's hits being left.
AfterDelete_nextSearchAtOnce(r, threw, e) ==
    EndRound(Sleep(classifyDelete(r, threw, e), deleteDelayMs))

\* purgeTarget: a delete call ended; the delete delay, then the next hit.
AfterDelete(r, threw, e) ==
    ProcessHits([Sleep(classifyDelete(r, threw, e), deleteDelayMs) EXCEPT !.hi = @ + 1])

\* purgeTarget: the hits of a page after the skip-channel filter.
survivingHits(r, result) ==
    SelectSeq(extractHits(result, r.me),
              LAMBDA m : ~isSkipped(m, r.hasNames, r.channelNames, r.config.skipChannels))

\* A faulty variant of the exhaustion test: a total equal to the single-page
\* size is taken for more to come.
NoHits_belowPageSize(r, result) ==
    IF result.total_results < SearchPageSize THEN EndTarget(r, FALSE, NoErr)
    ELSE IF Len(flat(result.messages)) > 0
    THEN SearchCall(Sleep([r EXCEPT !.maxId = oldestId(flat(result.messages))],
                          searchDelayMs))
    ELSE EndTarget(r, FALSE, NoErr)

\* purgeTarget: a page with no actionable hit.
NoHits(r, result) ==
    IF result.total_results <= SearchPageSize THEN EndTarget(r, FALSE, NoErr)
    ELSE IF Len(flat(result.messages)) > 0
    THEN SearchCall(Sleep([r EXCEPT !.maxId = oldestId(flat(result.messages))],
                          searchDelayMs))
    ELSE EndTarget(r, FALSE, NoErr)

\* The ids of a sequence of messages.
idsOf(ms) == {ms[k].id : k \in 1..Len(ms)}

\* The least message id of a page, 0 for a page without messages (kept for
\* the round's record; the code holds the page in result).
pageOldestOf(result) ==
    IF Len(flat(result.messages)) > 0 THEN oldestId(flat(result.messages)) ELSE 0

\* purgeTarget: a search call returned result.  For the record of the loop,
\* found keeps the hits of the page before the skip-channel filter and handled
\* the ids of the hits of the earlier pages of this target.
Round(r, result) ==
    IF result.total_results = 0 \/ Len(result.messages) = 0
    THEN EndTarget(r, FALSE, NoErr)
    ELSE LET hits == survivingHits(r, result)
             dropped == Len(extractHits(result, r.me)) - Len(hits)
             r1 == [r EXCEPT !.stats.messagesSkipped = @ + dropped,
                             !.pageOldest = pageOldestOf(result),
                             !.found = extractHits(result, r.me),
                             !.handled = @ \cup idsOf(r.found),
                             !.hits = <<>>, !.hi = 0, !.deletedThisBatch = 0]
         IN IF Len(hits) = 0 THEN NoHits(r1, result)
            ELSE ProcessHits([r1 EXCEPT !.hits = hits, !.hi = 1])

\* A faulty variant of the catch around the search call: the forbidden error
\* is rethrown like any other.
SearchThrew_forbiddenRethrown(r, e) == EndTarget(r, TRUE, e)

\* purgeTarget: the catch around the search call.
SearchThrew(r, e) ==
    IF e.cls = "DiscordForbiddenError" THEN EndTarget(r, FALSE, NoErr)
    ELSE EndTarget(r, TRUE, e)

\* A faulty variant of the guild pagination: the next page is asked for after
\* the first guild of the page.
AfterGetGuilds_afterFirst(r, batch) ==
    LET all == r.guilds \o batch IN
    IF Len(batch) < GuildPageLimit
    THEN GuildLoop([r EXCEPT !.guilds = all, !.gi = 1])
    ELSE Request([r EXCEPT !.guilds = all], "getGuilds", "GET",
                 Path("guilds", batch[1], 0))

\* getGuilds: a batch arrived; a full page asks for the next one.
AfterGetGuilds(r, batch) ==
    LET all == r.guilds \o batch IN
    IF Len(batch) < GuildPageLimit
    THEN GuildLoop([r EXCEPT !.guilds = all, !.gi = 1])
    ELSE Request([r EXCEPT !.guilds = all], "getGuilds", "GET",
                 Path("guilds", batch[Len(batch)], 0))

\* The code that runs when the call in flight returns body.
Return(r, body) ==
    CASE r.req.site = "getMe" ->
           Request([r EXCEPT !.me = body], "getGuilds", "GET", Path("guilds", "", 0))
      [] r.req.site = "getGuilds" -> AfterGetGuilds(r, body)
      [] r.req.site = "getGuildChannels" ->
           StartTarget(r, "guild", r.guilds[r.gi], <<r.guilds[r.gi]>>, TRUE, body)
      [] r.req.site = "getDMChannels" -> DMLoop([r EXCEPT !.dms = body, !.di = 1])
      [] r.req.site = "search" -> Round(r, body)
      [] r.req.site = "deleteMessage" -> AfterDelete(r, FALSE, NoErr)

\* A faulty variant: a failed fetch of the channel list is not caught.
Throw_channelListFatal(r, e) ==
    CASE r.req.site \in {"getMe", "getGuilds", "getDMChannels", "getGuildChannels"} -> Abort(r)
      [] r.req.site = "search" -> SearchThrew(r, e)
      [] r.req.site = "deleteMessage" -> AfterDelete(r, TRUE, e)

\* The code that runs when the call in flight throws e.
Throw(r, e) ==
    CASE r.req.site \in {"getMe", "getGuilds", "getDMChannels"} -> Abort(r)
      [] r.req.site = "getGuildChannels" ->
           StartTarget(r, "guild", r.guilds[r.gi], <<r.guilds[r.gi]>>, FALSE, {})
      [] r.req.site = "search" -> SearchThrew(r, e)
      [] r.req.site = "deleteMessage" -> AfterDelete(r, TRUE, e)

\* A response: status, the retry_after of a 429 body, the text of an error
\* body, and the rate-limit headers.
Response(status, retry_after, text, remaining0, has_reset, reset_after) ==
    [status |-> status, retry_after |-> retry_after, text |-> text,
     remaining0 |-> remaining0, has_reset |-> has_reset, reset_after |-> reset_after]

\* A faulty variant of the 429 branch: the extra second is not slept.
rateLimited_noExtraSecond(r, resp) == Sleep(r, resp.retry_after * 1000)

\* #request, the 429 branch: sleep, then the identical request again.
rateLimited(r, resp) == Sleep(r, resp.retry_after * 1000 + 1000)

\* A faulty variant of the 202 branch: one more retry before giving up.
indexBuilding_oneMore(r) ==
    IF r.req.attempt > maxRetries
    THEN Throw(r, IndexNotReadyError(r.req))
    ELSE [Sleep(r, IndexBuildingSleepMs) EXCEPT !.req.attempt = @ + 1]

\* #request, the 202 branch.
indexBuilding(r) ==
    IF r.req.attempt >= maxRetries
    THEN Throw(r, IndexNotReadyError(r.req))
    ELSE [Sleep(r, IndexBuildingSleepMs) EXCEPT !.req.attempt = @ + 1]

\* #request, the success tail: the pre-emptive wait, then res.json().
okTail(r, resp, body) ==
    Return(IF resp.remaining0 /\ resp.has_reset
           THEN Sleep(r, resp.reset_after * 1000 + 200)
           ELSE r,
           body)

\* #request from the await of fetch() on, with the response resp (and the
\* JSON body of a success), up to the next fetch() of the run.
request(r, resp, body) ==
    LET r0 == [r EXCEPT !.slept = <<>>] IN
    IF resp.status = 429 THEN rateLimited(r0, resp)
    ELSE IF resp.status = 202 THEN indexBuilding(r0)
    ELSE IF resp.status = 401 THEN Throw(r0, AuthError(r.req))
    ELSE IF resp.status = 403 THEN Throw(r0, ForbiddenError(r.req))
    ELSE IF resp.status = 204 THEN Return(r0, <<>>)
    ELSE IF resp.status = 404 THEN Throw(r0, NotFoundError(r.req))
    ELSE IF ~(resp.status \in 200..299) THEN Throw(r0, HttpError(r.req, resp.status, resp.text))
    ELSE okTail(r0, resp, body)

\* loadArchivedThreads: the persisted record as a map (its keys).
loadArchivedThreads(file) == file

\* ------------------------------------------------------ the service
\* Sequences of distinct elements of S.
DistinctSeqs(S) ==
    {q \in UNION {[1..n -> S] : n \in 0..Cardinality(S)} :
        \A i, j \in DOMAIN q : i # j => q[i] # q[j]}

\* How a message shows in a page: a hit of the acting user, a context message
\* of the acting user, or a hit of somebody else.
Flavours == {"hit", "context", "foreign"}
Shown(id, flavour) ==
    Msg(id, IF flavour = "foreign" THEN Other ELSE Me, flavour # "context")

\* A search result: one group per message of order, shown as shows says; with
\* again, the first message is repeated in a further group.
PageOf(order, shows, again, total) ==
    [total_results |-> total,
     messages |-> [i \in 1..Len(order) |-> <<Shown(order[i], shows[order[i]])>>]
                  \o (IF again THEN << <<Shown(order[1], shows[order[1]])>> >> ELSE <<>>)]

\* The search results over the messages ids: every order and showing of every
\* subset, and every order of hits with its first hit repeated, with a total at and above
\* the single-page size; a page with total_results = 0; the empty result; a
\* page of one empty group.
PagesOver(ids) ==
    {PageOf(order, shows, again, total) :
        order \in DistinctSeqs(ids) \ {<<>>}, shows \in [ids -> Flavours],
        again \in {FALSE}, total \in {SearchPageSize, SearchPageSize + 1}}
    \cup {PageOf(order, shows, again, total) :
        order \in DistinctSeqs(ids) \ {<<>>}, shows \in [ids -> {"hit"}],
        again \in {TRUE}, total \in {SearchPageSize, SearchPageSize + 1}}
    \cup {PageOf(<<i>>, [j \in ids |-> "hit"], FALSE, 0) : i \in ids}
    \cup {[total_results |-> 0, messages |-> <<>>],
          [total_results |-> SearchPageSize + 1, messages |-> << <<>> >>]}

AllPages == PagesOver(MsgIds)

\* The messages of the account: a few under the approximate indexes, one full
\* search page and more under the index that answers in ascending order.
MessagesOf(m) == IF m = "ascending" THEN 1..(SearchPageSize + MaxBeyondPage) ELSE MsgIds

\* The first n ids of S in ascending order (all of S when it has fewer).
Ascending(S, n) ==
    [i \in 1..(IF Cardinality(S) < n THEN Cardinality(S) ELSE n) |->
        CHOOSE x \in S : Cardinality({y \in S : y < x}) = i - 1]

\* The answer of a complete index to a search sorted asc with max_id: the
\* oldest messages of the acting user below the cursor, one page of them, each
\* a hit in a group of its own, and the number of all that match.
AscendingPage(ids) ==
    [total_results |-> Cardinality(ids),
     messages |-> [i \in 1..Len(Ascending(ids, SearchPageSize)) |->
                      <<Shown(Ascending(ids, SearchPageSize)[i], "hit")>>]]

RetryAfters == {1, 2}
\* Other non-success answers: the archived-thread refusal and a server error.
Failures == {<<400, "Thread is archived">>, <<500, "Internal">>}

\* ------------------------------------------------------------- state
VARIABLES
    run,     \* the program: purge()'s and purgeTarget()'s variables, the request in flight
    twin,    \* in mode "twin": the dry run over the same answers (run's deletes all succeed)
    mode,    \* the search index: "any" (approximate, stale), "honest", "ascending", or "twin"
    left,    \* what the service may still answer in this run: pages, faults, 429s, 202s
    live,    \* the messages an honest index still holds
    answered \* the response handled last

vars == <<run, twin, mode, left, live, answered>>

\* 202 answers of one run: enough to exhaust the retries of one call.
MaxBuilding == maxRetries + 1

\* The runs explored, as what the service may answer in one run (guilds: the
\* guilds of the account; paced: it reports exhausted rate-limit buckets):
\* many pages and failures in one guild; the retried answers (429, 202) and
\* the bucket headers around one page and one failure; two guilds; an account
\* of many guilds, listed in full pages (listing: the full pages left), of
\* which the configuration includes one.
Quotas ==
    {[pages |-> MaxPages, faults |-> MaxFaults, limited |-> 0, building |-> 0,
      paced |-> FALSE, guilds |-> 1, listing |-> 0],
     [pages |-> 1, faults |-> 1, limited |-> Max429, building |-> MaxBuilding,
      paced |-> TRUE, guilds |-> 1, listing |-> 0],
     [pages |-> 1, faults |-> MaxFaults, limited |-> 0, building |-> 0,
      paced |-> FALSE, guilds |-> 2, listing |-> 0],
     [pages |-> 1, faults |-> 1, limited |-> 0, building |-> 0,
      paced |-> FALSE, guilds |-> 1, listing |-> MaxFullPages]}

\* Rate-limit headers of a success: none, an exhausted bucket with its reset
\* time, an exhausted bucket without one.
Headers ==
    {<<FALSE, FALSE, 0>>} \cup (IF left.paced THEN {<<TRUE, TRUE, 1>>, <<TRUE, FALSE, 0>>} ELSE {})

Configs ==
    {[dryRun |-> d[1], skipChannels |-> d[2], includeGuilds |-> d[5], excludeGuilds |-> d[3],
      includeChannels |-> d[6], excludeChannels |-> d[7], includeDMs |-> d[4]] :
     d \in {<<FALSE, <<>>, {}, TRUE, {}, {}, {}>>, <<TRUE, <<>>, {}, TRUE, {}, {}, {}>>,
            <<FALSE, << <<"a", "b">> >>, {}, TRUE, {}, {}, {}>>,
            <<TRUE, << <<"a", "b">> >>, {}, FALSE, {}, {}, {}>>,
            <<FALSE, <<>>, {"g1"}, FALSE, {}, {}, {}>>,
            <<FALSE, <<>>, {}, FALSE, {"g1"}, {}, {}>>,
            <<TRUE, <<>>, {"g1"}, FALSE, {"g1"}, {}, {}>>,
            <<TRUE, <<>>, {"g1"}, TRUE, {}, {"d1", "d3"}, {"d3"}>>}}

Files == {{}, {"c2"}}

\* The state of the process when main() calls purge().
InitRun(config, file, cutoff) ==
    [pc |-> "start", exitCode |-> -1, config |-> config, file |-> file,
     archivedThreads |-> {},
     stats |-> [guildsProcessed |-> 0, channelsProcessed |-> 0, messagesDeleted |-> 0,
                messagesSkipped |-> 0, messagesFailed |-> 0, errors |-> <<>>],
     me |-> "", cutoff |-> cutoff, guilds |-> <<>>, gi |-> 0, dms |-> <<>>, di |-> 0,
     kind |-> "none", targetId |-> "", targetName |-> <<>>,
     hasNames |-> FALSE, channelNames |-> {},
     maxId |-> 0, round |-> 0, pageOldest |-> 0, found |-> <<>>, handled |-> {},
     hits |-> <<>>, hi |-> 0, deletedThisBatch |-> 0,
     req |-> NoReq, slept |-> <<>>]

InitMode(m) ==
    /\ mode = m
    /\ \E config \in Configs, file \in Files :
         /\ m = "twin" => ~config.dryRun
         /\ run = InitRun(config, file, Cardinality(MessagesOf(m)) + 1)
         /\ twin = InitRun([config EXCEPT !.dryRun = TRUE], file, Cardinality(MessagesOf(m)) + 1)
    /\ left \in IF m = "ascending"
                THEN {[q EXCEPT !.paced = FALSE] : q \in {p \in Quotas : p.paced}}
                ELSE {q \in Quotas : m = "honest" => q.guilds = 1}
    /\ left.listing > 0 <=> run.config.includeGuilds # {}
    /\ live = MessagesOf(m)
    /\ answered = Response(0, 0, "", FALSE, FALSE, 0)

Init == InitMode("any")

\* purge(): the archived-thread record is loaded and getMe is called.
Begin(r) ==
    Request([r EXCEPT !.pc = "running", !.archivedThreads = loadArchivedThreads(r.file)],
            "getMe", "GET", Path("me", "", 0))

\* One exchange: the request in flight is answered by resp (and body).  In
\* mode "twin" every delete succeeds, and the dry run is given the answers to
\* the other calls.
Step(resp, body) ==
    /\ run.pc = "running"
    /\ mode = "twin" =>
         IF run.req.site = "deleteMessage" THEN resp.status = 204
         ELSE twin.pc = "running" /\ twin.req.site = run.req.site
    /\ run' = request(run, resp, body)
    /\ twin' = IF mode = "twin" /\ run.req.site # "deleteMessage"
               THEN request(twin, resp, body) ELSE twin
    /\ live' = IF mode \in {"honest", "ascending"} /\ run.req.site = "deleteMessage" /\ resp.status = 204
               THEN live \ {run.req.path.arg}
               ELSE live
    /\ answered' = resp
    /\ UNCHANGED mode

Start ==
    /\ run.pc = "start"
    /\ run' = Begin(run)
    /\ twin' = IF mode = "twin" THEN Begin(twin) ELSE twin
    /\ UNCHANGED <<mode, left, live, answered>>

RateLimited ==
    /\ left.limited > 0
    /\ \E ra \in RetryAfters : Step(Response(429, ra, "", FALSE, FALSE, 0), <<>>)
    /\ left' = [left EXCEPT !.limited = @ - 1]

IndexBuilding ==
    /\ left.building > 0
    /\ Step(Response(202, 0, "", FALSE, FALSE, 0), <<>>)
    /\ left' = [left EXCEPT !.building = @ - 1]

\* The index is built once a call that was answered 202 has ended: no 202
\* follows in this run.
Built(l) == IF l.building < MaxBuilding THEN [l EXCEPT !.building = 0] ELSE l

\* A failing answer with the given status and body text.
Fault(status, text) ==
    /\ left.faults > 0
    /\ Step(Response(status, 0, text, FALSE, FALSE, 0), <<>>)
    /\ left' = Built([left EXCEPT !.faults = @ - 1])

Unauthorized == Fault(401, "")

Forbidden == Fault(403, "")

NotFound == Fault(404, "")

HttpFailure == \E f \in Failures : Fault(f[1], f[2])

\* 204: the answer to a successful DELETE.
NoContent ==
    /\ run.req.method = "DELETE"
    /\ \E h \in Headers : Step(Response(204, 0, "", h[1], h[2], h[3]), <<>>)
    /\ left' = Built(left)

\* The pages the search index may answer the search in flight with.  The
\* honest index is limited by its messages alone, except in the runs with
\* retried answers, which stay around one page.
SearchPages ==
    IF mode = "ascending"
    THEN {AscendingPage({i \in live : i < run.req.path.arg})}
    ELSE IF mode = "honest"
    THEN {p \in PagesOver({i \in live : i < run.req.path.arg}) :
             (left.paced /\ Len(p.messages) > 0) => left.pages > 0}
    ELSE {p \in AllPages : Len(p.messages) > 0 => left.pages > 0}

\* 200 with a JSON body: the answer to a successful GET.
OkSearch ==
    /\ run.req.site = "search"
    /\ \E h \in Headers, page \in SearchPages :
         /\ Step(Response(200, 0, "", h[1], h[2], h[3]), page)
         /\ left' = Built(IF (mode \in {"any", "twin"} \/ (mode = "honest" /\ left.paced))
                                /\ Len(page.messages) > 0
                          THEN [left EXCEPT !.pages = @ - 1] ELSE left)

OkGetMe ==
    /\ run.req.site = "getMe"
    /\ \E h \in Headers : Step(Response(200, 0, "", h[1], h[2], h[3]), Me)
    /\ left' = Built(left)

\* The pages the service may answer the guild listing in flight with: a small
\* account in one short page; a large one in full pages, then a short one.
GuildBatches ==
    IF left.listing = 0 /\ run.req.path.id = ""
    THEN {g \in GuildLists : Len(g) <= left.guilds}
    ELSE {GuildPage(run.req.path.id, n) :
            n \in {0, GuildPageLimit - 1} \cup (IF left.listing > 0 THEN {GuildPageLimit} ELSE {})}

OkGetGuilds ==
    /\ run.req.site = "getGuilds"
    /\ \E h \in Headers, batch \in GuildBatches :
         /\ Step(Response(200, 0, "", h[1], h[2], h[3]), batch)
         /\ left' = Built(IF Len(batch) = GuildPageLimit
                          THEN [left EXCEPT !.listing = @ - 1] ELSE left)

OkGetGuildChannels ==
    /\ run.req.site = "getGuildChannels"
    /\ \E h \in Headers, channels \in GuildChannelLists :
         Step(Response(200, 0, "", h[1], h[2], h[3]), channels)
    /\ left' = Built(left)

OkGetDMChannels ==
    /\ run.req.site = "getDMChannels"
    /\ \E h \in Headers, channels \in {d \in DMLists : Len(d) <= left.guilds} :
         Step(Response(200, 0, "", h[1], h[2], h[3]), channels)
    /\ left' = Built(left)

Next ==
    \/ Start
    \/ RateLimited
    \/ IndexBuilding
    \/ Unauthorized
    \/ Forbidden
    \/ NotFound
    \/ HttpFailure
    \/ NoContent
    \/ OkSearch
    \/ OkGetMe
    \/ OkGetGuilds
    \/ OkGetGuildChannels
    \/ OkGetDMChannels

Spec == Init /\ [][Next]_vars

\* A real run whose deletes all succeed and the dry run over the same answers.
SpecTwin == InitMode("twin") /\ [][Next]_vars

\* A search index that answers with live messages below the cursor only, in
\* an account of one guild and the DMs; every request is answered in the end.
SpecHonest == InitMode("honest") /\ [][Next]_vars /\ WF_vars(Next)

\* A complete search index that answers in ascending id order, one page at a
\* time, with the acting user's live messages below the cursor.
SpecAscending == InitMode("ascending") /\ [][Next]_vars

\* ------------------------------------------------------------ properties
\* The answer handled by this step ended the call in flight.
Final ==
    /\ run.pc = "running"
    /\ answered'.status # 429
    /\ ~(answered'.status = 202 /\ run.req.attempt < maxRetries)

\* This step ended a round of the target's loop and issued the next search.
RoundDone ==
    /\ Final
    /\ run.req.site \in {"search", "deleteMessage"}
    /\ run'.pc = "running" /\ run'.req.site = "search"
    /\ run.round >= 1 /\ run'.round = run.round + 1

\* The hits of the round that this step went past without a delete call.
PassedOver ==
    IF ~Final \/ run'.pc # "running" THEN {}
    ELSE LET from == IF run.req.site = "deleteMessage" THEN run.hi + 1 ELSE 1
             to == IF run'.req.site = "deleteMessage" THEN run'.hi - 1 ELSE Len(run'.hits)
         IN IF run.req.site = "deleteMessage" \/ (run.req.site = "search" /\ answered'.status = 200)
            THEN from..to ELSE {}

\* The answer handled by this step is the archived-thread refusal of a delete.
ArchivedAnswer ==
    /\ run.pc = "running" /\ run.req.site = "deleteMessage"
    /\ answered'.status = 400 /\ answered'.text = "Thread is archived"

\* C1 as stated: whenever a further search is issued, its cursor is strictly
\* below the least message id of the page just processed.
C1_CursorBelowPageMin ==
    (run.pc = "running" /\ run.req.site = "search" /\ run.round >= 2)
        => run.maxId < run.pageOldest

\* C1, amended: after a round that does not end the loop, the next cursor is
\* the least surviving hit id minus one (strictly below every surviving hit)
\* when the round had surviving hits and no delete succeeded; it is the least
\* message id of the page when no hit survived; it is unchanged when a delete
\* succeeded.
C1_CursorAdvance ==
    [][RoundDone =>
        /\ (Len(run'.hits) > 0 /\ run'.deletedThisBatch = 0) =>
              /\ run'.maxId = oldestId(run'.hits) - 1
              /\ \A i \in 1..Len(run'.hits) : run'.maxId < run'.hits[i].id
        /\ (Len(run'.hits) > 0 /\ run'.deletedThisBatch > 0) => run'.maxId = run.maxId
        /\ Len(run'.hits) = 0 =>
              /\ run'.maxId = run'.pageOldest
              /\ run'.req.path.arg = run'.pageOldest
        /\ run'.req.path.arg = run'.maxId]_vars

\* A real run whose round of two hits had every delete fail searches on below
\* the older hit.
C1_Witness ==
    /\ run.pc = "running" /\ run.req.site = "search" /\ run.round >= 2
    /\ ~run.config.dryRun /\ Len(run.hits) = 2 /\ run.deletedThisBatch = 0
    /\ run.stats.messagesFailed = 2
    /\ run.maxId = oldestId(run.hits) - 1

\* C2: against an index that answers only with live messages below the cursor,
\* the run ends, and no target takes more rounds than there are message ids
\* plus one.
C2_Terminates == <>(run.pc = "exited") /\ [](run.round <= MaxMsgId + 1)

\* A run against the honest index that took the greatest number of rounds,
\* deleted a message and had a delete fail.
C2_Witness ==
    /\ mode = "honest" /\ run.pc = "exited" /\ run.round = MaxMsgId + 1
    /\ run.stats.messagesDeleted >= 1 /\ run.stats.messagesFailed >= 1

\* The surviving hits of the page handled by this step that a dry run counts.
Simulated ==
    IF Final /\ run.req.site = "search" /\ answered'.status = 200 /\ run'.pc = "running"
    THEN Cardinality({i \in 1..Len(run'.hits) :
                         run'.hits[i].channel_id \notin run.archivedThreads})
    ELSE 0

\* C3: a dry run never has a delete request in flight, and messagesDeleted
\* grows by the surviving hits of each page whose channel is not in the
\* archived-thread map.
C3_DryRunNeverDeletes ==
    [][run.config.dryRun =>
        /\ run'.req.method # "DELETE"
        /\ run'.req.site # "deleteMessage"
        /\ run'.pc = "running" =>
             run'.stats.messagesDeleted = run.stats.messagesDeleted + Simulated
        /\ run'.pc = "exited" => run'.stats.messagesDeleted = run.stats.messagesDeleted]_vars

\* A dry run after a page of two surviving hits, one of them in an archived
\* thread: one simulated deletion, one skip.
C3_Witness ==
    /\ run.config.dryRun /\ run.pc = "running" /\ run.req.site = "search"
    /\ Len(run.hits) = 2 /\ run.round = 2
    /\ \E i \in 1..2 : run.hits[i].channel_id \in run.archivedThreads
    /\ run.stats.messagesDeleted = 1 /\ run.stats.messagesSkipped = 1

\* C4: the dry run and the real run whose deletes all succeed, given the same
\* answers, call the same endpoints in the same order, end together, and end
\* with the same messagesDeleted.
C4_DryRunMatchesRealRun ==
    mode = "twin" =>
        /\ (run.pc = "running" /\ run.req.site # "deleteMessage") =>
              (twin.pc = "running" /\ twin.req.site = run.req.site)
        /\ run.pc = "exited" =>
              /\ twin.pc = "exited"
              /\ twin.stats.messagesDeleted = run.stats.messagesDeleted

\* Both runs ended after several rounds, two deletions and a skipped hit of an
\* archived thread.
C4_Witness ==
    /\ mode = "twin" /\ run.pc = "exited" /\ twin.pc = "exited"
    /\ run.stats.messagesDeleted >= 2 /\ twin.stats.messagesDeleted >= 2
    /\ run.stats.messagesSkipped >= 1
    /\ run.round >= 3

\* C5: a delete answered not-found changes neither messagesDeleted nor
\* messagesFailed nor the errors list nor the archived-thread map, adds nothing
\* to messagesSkipped itself (that counter grows only by the archived-thread
\* hits passed over next), and the loop goes on to the next hit or, after the
\* last hit, to the next search.
C5_NotFoundIsSilent ==
    [][(run.pc = "running" /\ run.req.site = "deleteMessage" /\ answered'.status = 404) =>
        /\ run'.stats.messagesDeleted = run.stats.messagesDeleted
        /\ run'.stats.messagesFailed = run.stats.messagesFailed
        /\ run'.stats.errors = run.stats.errors
        /\ run'.archivedThreads = run.archivedThreads
        /\ run'.deletedThisBatch = run.deletedThisBatch
        /\ run'.stats.messagesSkipped = run.stats.messagesSkipped + Cardinality(PassedOver)
        /\ \A i \in PassedOver : run.hits[i].channel_id \in run.archivedThreads
        /\ run'.pc = "running" /\ run'.hits = run.hits
        /\ \/ run'.req.site = "deleteMessage" /\ run'.hi > run.hi
           \/ RoundDone /\ run'.hi = Len(run.hits) + 1
        /\ run'.slept[1] = deleteDelayMs]_vars

\* The delete of the first hit was answered not-found, nothing was counted,
\* and the delete of the second hit is in flight.
C5_Witness ==
    /\ run.pc = "running" /\ run.req.site = "deleteMessage" /\ run.hi = 2
    /\ answered.status = 404
    /\ run.stats.messagesDeleted = 0 /\ run.stats.messagesFailed = 0
    /\ run.stats.messagesSkipped = 0 /\ run.stats.errors = <<>>

\* C6: no delete request is in flight for a channel of the archived-thread
\* map; the map is loaded from the record, only grows, and grows by the
\* channel of a delete answered with the archived-thread error (so no channel
\* meets that error twice); every hit passed over without a delete call is of
\* an archived thread and adds one to messagesSkipped.
C6_ArchivedNeverDeleted ==
    [][/\ (run'.pc = "running" /\ run'.req.site = "deleteMessage") =>
             /\ run'.req.method = "DELETE"
             /\ run'.req.path.id = run'.hits[run'.hi].channel_id
             /\ run'.req.path.id \notin run'.archivedThreads
       /\ run.pc = "start" => run'.archivedThreads = run.file
       /\ run.pc = "running" =>
             run'.archivedThreads =
                 run.archivedThreads \cup (IF ArchivedAnswer THEN {run.req.path.id} ELSE {})
       /\ ArchivedAnswer => run.req.path.id \notin run.archivedThreads
       /\ ~run.config.dryRun =>
             \A i \in PassedOver : run'.hits[i].channel_id \in run'.archivedThreads
       /\ (Final /\ run.req.site = "deleteMessage") =>
             run'.stats.messagesSkipped =
                 run.stats.messagesSkipped + Cardinality(PassedOver)
                     + (IF ArchivedAnswer THEN 1 ELSE 0)
       /\ (Final /\ run.req.site = "search" /\ ~run.config.dryRun
              /\ Len(run.config.skipChannels) = 0) =>
             run'.stats.messagesSkipped = run.stats.messagesSkipped + Cardinality(PassedOver)
      ]_vars

\* A channel was recorded after the archived-thread error, and a later page
\* showed a message of it again: skipped twice, never deleted.
C6_Witness ==
    /\ run.pc = "running" /\ run.req.site = "search" /\ run.round >= 3
    /\ Len(run.config.skipChannels) = 0 /\ ~run.config.dryRun
    /\ "c2" \in run.archivedThreads /\ "c2" \notin run.file
    /\ Len(run.hits) = 1 /\ run.hits[1].channel_id = "c2"
    /\ run.stats.messagesSkipped = 2 /\ run.stats.messagesDeleted = 0

\* C7 as stated: when the process has ended, every channel of the
\* archived-thread map is in the persisted record.
C7_ArchivedPersistedAtExit ==
    run.pc = "exited" => run.archivedThreads \subseteq run.file

\* C8: a 429 answer changes nothing in the run but the sleep of
\* retry_after*1000 + 1000 ms: the same request (method, path, retry count) is
\* in flight again, the run has not failed, and no counter of 429 answers is
\* kept.
C8_RateLimitedRetry ==
    [][(run.pc = "running" /\ answered'.status = 429) =>
        /\ run' = [run EXCEPT !.slept = <<answered'.retry_after * 1000 + 1000>>]
        /\ run'.req = run.req
        /\ run'.pc = "running"]_vars

\* A delete was answered 429 with retry_after 2: 3000 ms slept, the delete in
\* flight again.
C8_Witness ==
    /\ answered.status = 429 /\ answered.retry_after = 2
    /\ run.pc = "running" /\ run.req.site = "deleteMessage"
    /\ run.slept = <<3000>>

\* C9: a 202 answer to a call that has retried fewer than 5 times makes the
\* client sleep 3000 ms and retry, counting one more retry; a 202 answer after
\* 5 retries ends the call with the index-not-ready error, which names the
\* path and the count 5; the count never exceeds 5, and a 429 answer leaves it
\* as it is.
C9_IndexBuildingRetries ==
    [][/\ (run.pc = "running" /\ answered'.status = 202 /\ run.req.attempt < maxRetries) =>
             run' = [run EXCEPT !.slept = <<IndexBuildingSleepMs>>, !.req.attempt = @ + 1]
       /\ (run.pc = "running" /\ answered'.status = 202 /\ run.req.attempt >= maxRetries) =>
             /\ run'.pc = "exited" \/ run'.req.attempt = 0
             /\ run.req.site \in {"search", "deleteMessage"} =>
                   /\ Len(run'.stats.errors) = Len(run.stats.errors) + 1
                   /\ LET e == run'.stats.errors[Len(run'.stats.errors)].emsg
                      IN /\ e.head = "Search index not ready"
                         /\ e.status = 5
                         /\ e.path = run.req.path
             /\ run.req.site \in {"getMe", "getGuilds", "getDMChannels"} =>
                   run'.pc = "exited" /\ run'.exitCode = 1
       /\ (run.pc = "running" /\ answered'.status = 429) =>
             run'.req.attempt = run.req.attempt
       /\ run'.req.attempt <= 5]_vars

\* A search met 202 until its retries were used up, a 429 having been answered
\* earlier in the run: the target ended with the index-not-ready error.
C9_Witness ==
    /\ answered.status = 202 /\ left.limited = 0
    /\ Len(run.stats.errors) = 1
    /\ run.stats.errors[1].what = "guild"
    /\ run.stats.errors[1].emsg.head = "Search index not ready"
    /\ run.stats.errors[1].emsg.status = 5

\* C10 as stated: once a call has been answered 401 the process has ended
\* with a non-zero code.
C10_UnauthorizedIsFatal ==
    answered.status = 401 => (run.pc = "exited" /\ run.exitCode # 0)


\* This step ended the target in hand: the next request, if any, is for the
\* next target or for the DM listing, and no delete is issued.
TargetLeft ==
    /\ IF run.kind = "guild" THEN run'.gi > run.gi ELSE run'.di > run.di
    /\ \/ run'.pc = "exited"
       \/ /\ run'.pc = "running"
          /\ \/ run'.req.site \in {"getGuildChannels", "getDMChannels"}
             \/ run'.req.site = "search" /\ run'.round = 1 /\ run'.maxId = run.cutoff

\* C11: a search answered 403 ends the target at once: the next request is
\* for the next target (or the run ends), nothing is appended to the errors
\* list, and messagesFailed, messagesDeleted and messagesSkipped are unchanged.
C11_ForbiddenEndsTarget ==
    [][(run.pc = "running" /\ run.req.site = "search" /\ answered'.status = 403) =>
        /\ TargetLeft
        /\ run'.stats.errors = run.stats.errors
        /\ run'.stats.messagesFailed = run.stats.messagesFailed
        /\ run'.stats.messagesDeleted = run.stats.messagesDeleted
        /\ run'.stats.messagesSkipped = run.stats.messagesSkipped
        /\ run'.pc = "exited" => run'.exitCode = (IF run.stats.messagesFailed > 0 THEN 1 ELSE 0)]_vars

\* The search of the first of two guilds was answered 403, and the search of
\* the second guild is in flight with no error recorded.
C11_Witness ==
    /\ answered.status = 403 /\ run.pc = "running" /\ run.req.site = "search"
    /\ Len(run.guilds) = 2 /\ run.gi = 2 /\ run.round = 1
    /\ run.stats.errors = <<>> /\ run.stats.messagesFailed = 0

\* The answer handled by this step made the search in flight throw an error
\* other than the forbidden error.
SearchFailed ==
    /\ run.pc = "running" /\ run.req.site = "search"
    /\ \/ answered'.status \in {401, 404, 400, 500}
       \/ answered'.status = 202 /\ run.req.attempt >= maxRetries

\* C12: a search that throws anything but the forbidden error is recorded in
\* the errors list under the target's name and the run goes on with the next
\* target: the processed counters and messagesFailed are unchanged; and a run
\* that ends after the search of its last target has gone through every guild
\* and DM channel, has saved the archived-thread map and exits by the count of
\* failed deletions.
C12_TargetFailureIsCaught ==
    [][/\ SearchFailed =>
             /\ TargetLeft
             /\ Len(run'.stats.errors) = Len(run.stats.errors) + 1
             /\ SubSeq(run'.stats.errors, 1, Len(run.stats.errors)) = run.stats.errors
             /\ LET rec == run'.stats.errors[Len(run'.stats.errors)]
                IN /\ rec.what = (IF run.kind = "guild" THEN "guild" ELSE "DM")
                   /\ rec.target = run.targetName
                   /\ rec.emsg.cls # "DiscordForbiddenError"
                   /\ answered'.status = 401 => rec.emsg.cls = "DiscordAuthError"
                   /\ answered'.status = 202 => rec.emsg.head = "Search index not ready"
             /\ run'.stats.guildsProcessed = run.stats.guildsProcessed
             /\ run'.stats.channelsProcessed = run.stats.channelsProcessed
             /\ run'.stats.messagesFailed = run.stats.messagesFailed
       /\ (run.pc = "running" /\ run.req.site = "search" /\ run'.pc = "exited") =>
             /\ run'.gi > Len(run'.guilds)
             /\ run'.config.includeDMs => run'.di > Len(run'.dms)
             /\ run'.archivedThreads \subseteq run'.file
             /\ run'.exitCode = (IF run'.stats.messagesFailed > 0 THEN 1 ELSE 0)]_vars

\* The search of the first of two guilds failed with a server error; the
\* second guild was processed, an archived thread was met there, and the run
\* ended normally with the map saved.
C12_Witness ==
    /\ run.pc = "exited" /\ run.exitCode = 0
    /\ Len(run.guilds) = 2 /\ run.stats.guildsProcessed = 1
    /\ Len(run.stats.errors) = 1 /\ run.stats.errors[1].what = "guild"
    /\ run.stats.errors[1].emsg.status = 500
    /\ run.archivedThreads # {} /\ run.file = run.archivedThreads
    /\ run.stats.messagesSkipped >= 1

\* The answer handled by this step made the call in flight throw.
CallThrew ==
    /\ run.pc = "running"
    /\ \/ answered'.status \in {401, 403, 404, 400, 500}
       \/ answered'.status = 202 /\ run.req.attempt >= maxRetries

\* C13 as stated: a process that has exited with a non-zero code had a failed
\* message deletion.
C13_NonZeroOnlyIfFailed ==
    (run.pc = "exited" /\ run.exitCode # 0) => run.stats.messagesFailed > 0

\* C13, amended: the process exits with 1 when the self lookup, the guild
\* listing or the DM listing throws (whatever messagesFailed is, and without
\* saving the archived-thread map); every other exit is the end of purge(),
\* with code 1 if messagesFailed > 0 and 0 otherwise.
C13_ExitCode ==
    [][(run.pc = "running" /\ run'.pc = "exited") =>
        IF run.req.site \in {"getMe", "getGuilds", "getDMChannels"} /\ CallThrew
        THEN /\ run'.exitCode = 1
             /\ run'.stats = run.stats
             /\ run'.file = run.file
        ELSE /\ run'.exitCode = (IF run'.stats.messagesFailed > 0 THEN 1 ELSE 0)
             /\ run'.stats.messagesFailed = run.stats.messagesFailed]_vars

\* A run whose guild was processed without a failed deletion, ended by a 401
\* answer to the DM listing: exit code 1 with messagesFailed = 0.
C13_Witness ==
    /\ run.pc = "exited" /\ run.exitCode = 1
    /\ run.stats.messagesFailed = 0 /\ run.stats.guildsProcessed = 1
    /\ run.stats.messagesDeleted >= 1
    /\ answered.status = 401

\* The guild listing in flight was answered with a page by this step.
GuildPageArrived ==
    run.pc = "running" /\ run.req.site = "getGuilds" /\ answered'.status = 200

\* C14: the first listing request has no lower bound; the guilds of a page are
\* appended to those of the pages before; after a page of 200 the next
\* request is the listing after the last guild of that page; after a shorter
\* page no further listing request is made and the guild loop starts with
\* the concatenation.
C14_GuildPagination ==
    [][/\ (run.pc = "running" /\ run.req.site = "getMe" /\ answered'.status = 200) =>
             run'.req.site = "getGuilds" /\ run'.req.path.id = "" /\ run'.guilds = <<>>
       /\ GuildPageArrived =>
             LET n == Len(run'.guilds) - Len(run.guilds) IN
             /\ n \in 0..GuildPageLimit
             /\ SubSeq(run'.guilds, 1, Len(run.guilds)) = run.guilds
             /\ \A i \in 1..n :
                   run'.guilds[Len(run.guilds) + i] = GuildId(GuildIndex(run.req.path.id) + i)
             /\ n = 200 =>
                   /\ run'.pc = "running" /\ run'.req.site = "getGuilds"
                   /\ run'.req.method = "GET" /\ run'.req.attempt = 0
                   /\ run'.req.path.id = run'.guilds[Len(run'.guilds)]
             /\ n < 200 => (run'.pc = "exited" \/ run'.req.site # "getGuilds")
       /\ (run.pc = "running" /\ run.req.site # "getGuilds" /\ run.req.site # "getMe") =>
             (run'.guilds = run.guilds /\ (run'.pc = "running" => run'.req.site # "getGuilds"))
      ]_vars

\* A page of 200 guilds and a page of 199 were listed in two calls: 399
\* guilds in the order of the listing, and the search of the included guild
\* is in flight.
C14_Witness ==
    /\ run.pc = "running" /\ run.req.site = "search" /\ run.targetId = "g1"
    /\ Len(run.guilds) = 2 * GuildPageLimit - 1
    /\ left.listing = MaxFullPages - 1
    /\ \A i \in 1..Len(run.guilds) : run.guilds[i] = GuildId(i)

\* The resolved display name of a DM channel contains a configured skip
\* pattern, letter case apart.
DMSkipMatched(ch) ==
    \E i \in 1..Len(run.config.skipChannels) :
        includes(toLowerCase(dmName(ch)), toLowerCase(run.config.skipChannels[i]))

\* C15: a search or delete request in flight in the DM section belongs to the
\* DM channel at the loop index, whose display name matches no skip pattern;
\* and channelsProcessed never exceeds the number of unmatched DM channels the
\* loop has reached.
C15_SkippedDMNeverSearched ==
    /\ (run.pc = "running" /\ run.kind = "channel"
           /\ run.req.site \in {"search", "deleteMessage"}) =>
          /\ run.di \in 1..Len(run.dms)
          /\ run.dms[run.di].id = run.targetId
          /\ run.targetName = dmName(run.dms[run.di])
          /\ ~DMSkipMatched(run.dms[run.di])
          /\ run.req.site = "search" => run.req.path.id = run.targetId
    /\ run.stats.channelsProcessed <=
          Cardinality({j \in 1..Len(run.dms) : j <= run.di /\ ~DMSkipMatched(run.dms[j])})

\* With the skip pattern "ab", the DM channel resolving to "c, Ab" was passed
\* over and the search of the next DM channel, "A, b", is in flight.
C15_Witness ==
    /\ run.pc = "running" /\ run.kind = "channel" /\ run.req.site = "search"
    /\ Len(run.config.skipChannels) > 0
    /\ Len(run.dms) = 2 /\ run.di = 2 /\ run.round = 1
    /\ DMSkipMatched(run.dms[1]) /\ ~DMSkipMatched(run.dms[2])
    /\ run.targetId = "d1" /\ run.stats.channelsProcessed = 0

\* The channel of message m has a name in the fetched map of the target, and
\* the name contains a skip pattern, letter case aside.
SkipMatched(r, m) ==
    /\ \E e \in r.channelNames : e[1] = m.channel_id
    /\ \E e \in r.channelNames, i \in 1..Len(r.config.skipChannels) :
          /\ e[1] = m.channel_id
          /\ includes(toLowerCase(e[2]), toLowerCase(r.config.skipChannels[i]))

\* C16: in a guild target with a fetched channel-name map and skip patterns,
\* no delete request is in flight for a message of a channel whose name
\* contains a skip pattern (letter case aside), and no such message is among
\* the hits of the round; when a page has been taken and the loop goes on, the
\* hits of the round are the hits of the page without those of skip-matched
\* channels, and messagesSkipped has grown by one for each hit dropped (and by
\* one for each hit passed over as archived).
C16_SkipMatchedNeverDeleted ==
    [][(run'.pc = "running" /\ run'.kind = "guild" /\ run'.hasNames
            /\ Len(run'.config.skipChannels) > 0) =>
        /\ run'.req.site = "deleteMessage" =>
              /\ run'.req.path.arg = run'.hits[run'.hi].id
              /\ run'.req.path.id = run'.hits[run'.hi].channel_id
        /\ \A i \in 1..Len(run'.hits) : ~SkipMatched(run', run'.hits[i])
        /\ (run.pc = "running" /\ run.req.site = "search" /\ answered'.status = 200
                /\ run'.found # <<>>) =>
              /\ run'.hits = SelectSeq(run'.found, LAMBDA m : ~SkipMatched(run', m))
              /\ run'.stats.messagesSkipped =
                    run.stats.messagesSkipped + (Len(run'.found) - Len(run'.hits))
                    + Cardinality({i \in PassedOver :
                                     run'.hits[i].channel_id \in run.archivedThreads})
      ]_vars

\* A page of a guild showed a hit in the channel "Ab" and a hit in the channel
\* "bc" under the skip pattern "ab": the first was dropped and counted as
\* skipped, and the delete of the second is in flight.
C16_Witness ==
    /\ run.pc = "running" /\ run.kind = "guild" /\ run.hasNames
    /\ run.config.skipChannels = << <<"a", "b">> >>
    /\ <<"c1", <<"A", "b">> >> \in run.channelNames
    /\ idsOf(run.found) = {1, 2} /\ idsOf(run.hits) = {2}
    /\ run.stats.messagesSkipped = 1
    /\ run.req.site = "deleteMessage" /\ run.req.path.arg = 2

\* The message with this id is one the target in hand has to handle: its
\* channel is neither skip-matched nor known as archived.
Eligible(r, id) ==
    /\ ~SkipMatched(r, Shown(id, "hit"))
    /\ ChannelOf(id) \notin r.archivedThreads

\* C17 as stated: against an index that answers in ascending id order, one
\* page at a time, with the acting user's messages below the cursor, when the
\* loop of a target ends normally (a search answered 200 ended it), every
\* message of the acting user below the initial cursor whose channel is
\* neither skip-matched nor archived, and which the index still holds, has
\* been among the hits of a round of this loop (and so was passed to the delete
\* endpoint or, in a dry run, counted).
C17_NoRecordSkipped ==
    [][(run.pc = "running" /\ run.req.site = "search" /\ answered'.status = 200
            /\ TargetLeft) =>
        \A id \in live :
            (id < run.cutoff /\ Eligible(run, id)) => id \in run.handled \cup idsOf(run.found)
      ]_vars

\* C18 as stated: within the loop of one target no message is handled in more
\* than one round: no hit of the page in hand (before or after the
\* skip-channel filter) was a hit of an earlier page of the same loop.
C18_NoRecordReprocessed ==
    run.pc = "running" => idsOf(run.found) \cap run.handled = {}

\* The request in flight belongs to the target in hand, and the target in
\* hand is the one at the index of the loop of purge().
OfTargetInHand(r) ==
    /\ r.req.site = "search" => r.req.path.id = r.targetId
    /\ r.req.site = "deleteMessage" =>
         /\ r.hi \in 1..Len(r.hits)
         /\ r.req.path = Path("message", r.hits[r.hi].channel_id, r.hits[r.hi].id)
    /\ r.req.site \in {"search", "deleteMessage"} =>
         IF r.kind = "guild"
         THEN r.gi \in 1..Len(r.guilds) /\ r.targetId = r.guilds[r.gi]
         ELSE r.di \in 1..Len(r.dms) /\ r.targetId = r.dms[r.di].id

\* C19: a run has one request in flight while it runs and none once it has
\* ended; the request is for the target in hand, and the targets are taken one
\* after another (the loop indexes never go back, and the DM section starts
\* after the last guild); the next search of a target is issued only when
\* every hit of the round has been gone through, each delete call having ended
\* before the next request is issued; a retried answer (429, or 202 with
\* attempts left) re-sends the same request in the same flow after its sleep.
C19_OneRequestInFlight ==
    [][/\ run'.pc = "running" => run'.req.site # "none" /\ OfTargetInHand(run')
       /\ run'.pc = "exited" => run'.req = NoReq
       /\ run.pc = "running" =>
            /\ run'.gi >= run.gi /\ run'.di >= run.di
            /\ run'.di > 0 => run'.gi = Len(run'.guilds) + 1
            /\ (run'.pc = "running" /\ run'.req.site = "search" /\ run'.round >= 2) =>
                 run'.hi = (IF run'.hits = <<>> THEN 0 ELSE Len(run'.hits) + 1)
            /\ (run.req.site = "deleteMessage" /\ Final /\ run'.pc = "running"
                    /\ run'.req.site = "deleteMessage") =>
                 run'.hi > run.hi /\ run'.hits = run.hits
            /\ ~Final =>
                 /\ run'.pc = "running"
                 /\ run'.req.site = run.req.site /\ run'.req.path = run.req.path
                 /\ run'.req.method = run.req.method
                 /\ Len(run'.slept) = 1
                 /\ run'.hi = run.hi /\ run'.gi = run.gi /\ run'.di = run.di
      ]_vars

\* The second search of a guild is in flight after a round of two hits whose
\* two delete calls both ended, a request of the run having been re-sent after
\* a 429 and its sleep.
C19_Witness ==
    /\ run.pc = "running" /\ run.kind = "guild"
    /\ run.req.site = "search" /\ run.round = 2
    /\ Len(run.hits) = 2 /\ run.hi = 3
    /\ run.stats.messagesDeleted = 2
    /\ left.limited = 0 /\ left.paced

CallerDelays ==
    (IF run.req.site = "deleteMessage" THEN <<deleteDelayMs>> ELSE <<>>)
    \o (IF run'.pc = "running" /\ run'.req.site = "search" /\ run'.round = run.round + 1
           /\ run.round >= 1
        THEN <<searchDelayMs>> ELSE <<>>)

\* C21 as stated: a call that ends in success, with a JSON body (200) or with
\* no content (204), sleeps reset_after * 1000 + 200 ms before it returns when
\* the headers report zero remaining requests and a reset-after value, and
\* does not sleep otherwise (the sleeps that follow are the caller's delays).
C21_BucketWaitOnSuccess ==
    [][(run.pc = "running" /\ answered'.status \in {200, 204}) =>
        run'.slept =
            (IF answered'.remaining0 /\ answered'.has_reset
             THEN <<answered'.reset_after * 1000 + 200>> ELSE <<>>)
            \o CallerDelays
      ]_vars

\* The run after the search in flight is answered 200, without bucket
\* headers, with the page p.
AfterPage(p) == request(run, Response(200, 0, "", FALSE, FALSE, 0), p)

\* C22: whatever page with messages but without a surviving hit answers the
\* search in flight: with total_results at most 25 the loop of the target
\* stops (the next request, if any, belongs to what follows the target); with
\* more, the cursor becomes the least id among all messages of the page, hit
\* or not, filtered or not, the search delay is slept and the next search of
\* the same target is issued with that cursor; no delete is issued, and
\* nothing is counted but the hits dropped by the skip-channel filter.
C22_PageWithoutSurvivingHit ==
    (run.pc = "running" /\ run.req.site = "search") =>
        \A p \in AllPages :
            (Len(flat(p.messages)) > 0 /\ p.total_results # 0
                /\ \A i \in 1..Len(extractHits(p, run.me)) :
                      SkipMatched(run, extractHits(p, run.me)[i])) =>
            LET after == AfterPage(p)
                least == CHOOSE i \in idsOf(flat(p.messages)) :
                            \A j \in idsOf(flat(p.messages)) : i <= j
            IN /\ after.req.site # "deleteMessage"
               /\ after.stats.messagesDeleted = run.stats.messagesDeleted
               /\ after.stats.messagesFailed = run.stats.messagesFailed
               /\ after.stats.errors = run.stats.errors
               /\ after.stats.messagesSkipped =
                    run.stats.messagesSkipped + Len(extractHits(p, run.me))
               /\ IF p.total_results <= 25
                  THEN /\ IF run.kind = "guild" THEN after.gi > run.gi ELSE after.di > run.di
                       /\ after.pc = "running" =>
                            \/ after.req.site \in {"getGuildChannels", "getDMChannels"}
                            \/ after.req.site = "search" /\ after.round = 1
                  ELSE /\ after.pc = "running" /\ after.req.site = "search"
                       /\ after.targetId = run.targetId /\ after.req.path.id = run.targetId
                       /\ after.gi = run.gi /\ after.di = run.di
                       /\ after.round = run.round + 1
                       /\ after.maxId = least /\ after.req.path.arg = least
                       /\ after.slept = <<searchDelayMs>>

\* The second search of a target is in flight after a page of one message in
\* the channel "Ab", dropped under the skip pattern "ab", with a total above
\* 25: the cursor is the id of that message, and only the search delay was
\* slept.
C22_Witness ==
    /\ run.pc = "running" /\ run.req.site = "search" /\ run.round = 2
    /\ run.hasNames /\ Len(run.found) = 1 /\ run.hits = <<>>
    /\ SkipMatched(run, run.found[1])
    /\ run.stats.messagesSkipped = 1
    /\ run.maxId = run.found[1].id /\ run.maxId = run.pageOldest
    /\ run.req.path.arg = run.maxId
    /\ run.slept = <<searchDelayMs>>

\* C23: deletedThisBatch counts the delete calls of the round that succeeded
\* (it grows by one on a 204 and by nothing on any other answer, and starts at
\* 0 with the page); at the end of a round with surviving hits, the cursor of
\* the next search is the least surviving hit id minus one when none
\* succeeded -- in particular in a dry run and when every hit is in an
\* archived channel -- and the cursor of the search before when one did.
C23_CursorAtEndOfRound ==
    [][/\ (run.pc = "running" /\ run.req.site = "deleteMessage" /\ Final) =>
            /\ run'.hits = run.hits
            /\ run'.deletedThisBatch =
                  run.deletedThisBatch + (IF answered'.status = 204 THEN 1 ELSE 0)
       /\ (run.pc = "running" /\ run.req.site = "search" /\ answered'.status = 200
              /\ run'.pc = "running" /\ run'.round >= run.round /\ run'.hits # <<>>) =>
            run'.deletedThisBatch = 0
       /\ (RoundDone /\ run'.hits # <<>>) =>
            /\ run'.deletedThisBatch = 0 =>
                 /\ run'.maxId = oldestId(run'.hits) - 1
                 /\ run'.req.path.arg = oldestId(run'.hits) - 1
            /\ run'.deletedThisBatch > 0 =>
                 /\ run'.maxId = run.maxId
                 /\ run'.req.path.arg = run.maxId
            /\ (run.config.dryRun
                  \/ \A i \in 1..Len(run'.hits) : run'.hits[i].channel_id \in run.archivedThreads) =>
                 /\ run.req.site = "search"
                 /\ run'.maxId = oldestId(run'.hits) - 1
      ]_vars

\* A real round of two hits ended with one delete answered 204 and the other
\* answered not-found: the next search is in flight with the cursor where it
\* was, at the cutoff.
C23_Witness ==
    /\ run.pc = "running" /\ run.req.site = "search" /\ run.round = 2
    /\ ~run.config.dryRun /\ Len(run.hits) = 2 /\ run.deletedThisBatch = 1
    /\ run.stats.messagesDeleted = 1 /\ run.stats.messagesFailed = 0
    /\ run.stats.messagesSkipped = 0 /\ run.archivedThreads = {}
    /\ answered.status = 404
    /\ run.maxId = run.cutoff /\ run.req.path.arg = run.cutoff

\* The place of the first occurrence of the message id in ms.
FirstAt(ms, id) == CHOOSE k \in 1..Len(ms) : ms[k].id = id /\ \A j \in 1..(k - 1) : ms[j].id # id

C25_TargetScoping ==
    run.pc = "running" =>
        /\ run.req.site = "getGuildChannels" =>
             /\ run.gi \in 1..Len(run.guilds) /\ run.req.path.id = run.guilds[run.gi]
             /\ run.config.includeGuilds = {} \/ run.req.path.id \in run.config.includeGuilds
             /\ run.req.path.id \notin run.config.excludeGuilds
        /\ (run.req.site \in {"search", "deleteMessage"} /\ run.kind = "guild") =>
             /\ run.gi \in 1..Len(run.guilds) /\ run.targetId = run.guilds[run.gi]
             /\ run.req.site = "search" => run.req.path = Path("guildSearch", run.targetId, run.maxId)
             /\ run.config.includeGuilds = {} \/ run.targetId \in run.config.includeGuilds
             /\ run.targetId \notin run.config.excludeGuilds
        /\ run.req.site = "getDMChannels" => run.config.includeDMs
        /\ (run.req.site \in {"search", "deleteMessage"} /\ run.kind # "guild") =>
             /\ run.kind = "channel" /\ run.config.includeDMs
             /\ run.di \in 1..Len(run.dms) /\ run.targetId = run.dms[run.di].id
             /\ run.req.site = "search" => run.req.path = Path("channelSearch", run.targetId, run.maxId)
             /\ run.config.includeChannels = {} \/ run.targetId \in run.config.includeChannels
             /\ run.targetId \notin run.config.excludeChannels
        /\ run.req.site = "deleteMessage" =>
             /\ run.hi \in 1..Len(run.hits)
             /\ run.req.path = Path("message", run.hits[run.hi].channel_id, run.hits[run.hi].id)

\* With the channels d1 and d3 included and d3 excluded, and the guild g1
\* excluded, the DM channel d2 was passed over and the search of d1 is in
\* flight.
C25_Witness ==
    /\ run.pc = "running" /\ run.kind = "channel" /\ run.req.site = "search"
    /\ run.config.includeChannels = {"d1", "d3"} /\ run.config.excludeChannels = {"d3"}
    /\ run.config.excludeGuilds = {"g1"}
    /\ Len(run.dms) = 2 /\ run.dms[1].id = "d2" /\ run.di = 2
    /\ run.targetId = "d1" /\ run.stats.channelsProcessed = 0

\* The delete call ended by this step failed otherwise than by not-found or
\* by the archived-thread refusal.
DeleteFailed ==
    /\ run.pc = "running" /\ run.req.site = "deleteMessage"
    /\ \/ answered'.status \in {401, 403, 500}
       \/ answered'.status = 202 /\ run.req.attempt >= maxRetries

\* C26: in every state the errors list holds one entry per failed delete and
\* one per target whose processing threw: its entries for messages are as
\* many as messagesFailed, the others are entries for targets.  On every step
\* the list grows by one entry, for the message, when a delete failed, by one
\* entry, for the target, when the search of a target threw, and is unchanged
\* otherwise -- on a delete answered not-found or archived, on hits skipped,
\* on a forbidden search and on a failed fetch of a channel list.
C26_ErrorsList ==
    /\ [](/\ Cardinality({i \in 1..Len(run.stats.errors) :
                            run.stats.errors[i].what = "message"}) = run.stats.messagesFailed
          /\ \A i \in 1..Len(run.stats.errors) :
                run.stats.errors[i].what \in {"message", "guild", "DM"})
    /\ [][run.pc = "running" =>
            /\ run'.stats.messagesFailed =
                  run.stats.messagesFailed + (IF DeleteFailed THEN 1 ELSE 0)
            /\ Len(run'.stats.errors) =
                  Len(run.stats.errors) + (IF DeleteFailed \/ SearchFailed THEN 1 ELSE 0)
            /\ SubSeq(run'.stats.errors, 1, Len(run.stats.errors)) = run.stats.errors
            /\ DeleteFailed =>
                 LET rec == run'.stats.errors[Len(run'.stats.errors)]
                 IN rec.what = "message" /\ rec.msg = run.req.path.arg
            /\ SearchFailed =>
                 LET rec == run'.stats.errors[Len(run'.stats.errors)]
                 IN /\ rec.what = (IF run.kind = "guild" THEN "guild" ELSE "DM")
                    /\ rec.target = run.targetName
          ]_vars

\* A delete of a guild failed and then the next search of the guild threw:
\* the errors list holds the entry of the message and the entry of the guild,
\* and messagesFailed is 1.
C26_Witness ==
    /\ Len(run.stats.errors) = 2
    /\ run.stats.errors[1].what = "message" /\ run.stats.errors[2].what = "guild"
    /\ run.stats.messagesFailed = 1
    /\ run.stats.guildsProcessed = 0

\* C27: when the fetch of a guild's channel list fails, the search of that
\* guild is issued at once, from the cutoff, without a channel-name map;
\* nothing is appended to the errors list and no counter moves.  In a guild
\* without a map no hit is dropped by pattern: the hits of a round are all the
\* hits of the page, and messagesSkipped grows only by hits in archived
\* channels.  The other targets are not affected: with skip patterns
\* configured, the search of a guild follows an answer to the fetch of its own
\* channel list and has the map exactly when that fetch succeeded, and a DM
\* channel whose name matches a pattern is not searched.
C27_ChannelListFailure ==
    [][run.pc = "running" =>
        /\ (run.req.site = "getGuildChannels" /\ CallThrew) =>
             /\ run'.pc = "running" /\ run'.req.site = "search"
             /\ run'.kind = "guild" /\ run'.gi = run.gi
             /\ run'.targetId = run.guilds[run.gi]
             /\ run'.req.path = Path("guildSearch", run.guilds[run.gi], run.cutoff)
             /\ run'.round = 1
             /\ ~run'.hasNames /\ run'.channelNames = {}
             /\ run'.stats = run.stats
        /\ (run.req.site = "getGuildChannels" /\ answered'.status = 200) =>
             /\ run'.pc = "running" /\ run'.req.site = "search" /\ run'.gi = run.gi
             /\ run'.hasNames
        /\ (run'.pc = "running" /\ run'.kind = "guild" /\ run'.req.site = "search"
               /\ run'.round = 1 /\ Final /\ Len(run.config.skipChannels) > 0) =>
             /\ run.req.site = "getGuildChannels"
             /\ run'.hasNames <=> answered'.status = 200
        /\ (run'.pc = "running" /\ run'.kind = "guild" /\ ~run'.hasNames
               /\ run.req.site = "search" /\ answered'.status = 200 /\ run'.found # <<>>) =>
             /\ run'.hits = run'.found
             /\ run'.stats.messagesSkipped = run.stats.messagesSkipped
                  + Cardinality({i \in PassedOver :
                                   run'.hits[i].channel_id \in run.archivedThreads})
        /\ (run'.pc = "running" /\ run'.kind = "channel"
               /\ run'.req.site \in {"search", "deleteMessage"}) =>
             ~matchesSkipPattern(dmName(run'.dms[run'.di]), run'.config.skipChannels)
      ]_vars

\* With the skip pattern "ab" configured, the fetch of the channel list of a
\* guild failed, and the delete of a hit in the channel "Ab" of that guild is
\* in flight: nothing was skipped, nothing is on the errors list.
C27_Witness ==
    /\ run.pc = "running" /\ run.kind = "guild" /\ ~run.hasNames
    /\ run.config.skipChannels = << <<"a", "b">> >>
    /\ run.req.site = "deleteMessage" /\ run.req.path.id = "c1"
    /\ matchesSkipPattern(NameOfChannel("c1"), run.config.skipChannels)
    /\ run.stats.messagesSkipped = 0 /\ run.stats.errors = <<>>
    /\ run.round = 1 /\ run.gi = 1

====
